---- MODULE Spec2Model ----
(***************************************************************************)
(* Launcher (bin/lib/claude) and status line (bin/lib/statusline.ts) of    *)
(* the .claude repository.  Text is a sequence of one-character strings,   *)
(* so that trimming, splitting and prefix tests are computed as the code   *)
(* computes them.                                                          *)
(***************************************************************************)
EXTENDS Integers, Sequences, FiniteSets, TLC

VARIABLES
  pc,              \* position of main() in src/bin/lib/claude/index.ts
  argv,            \* process.argv.slice(2)
  procEnv,         \* process.env (credential variables only)
  args,            \* argv after the --glm flag was spliced out
  isGlmMode,       \* index.ts:38
  fsGlobal,        \* ~/.claude.json             (paths.global)
  fsClaude,        \* ~/.claude/claude.json      (paths.claude)
  fsMcp,           \* ~/.claude/mcp.json         (paths.mcp)
  srcExists,       \* paths.instructionsSource exists
  targetExists,    \* paths.instructionsTarget exists
  manifestExists,  \* /tmp/claude-symlinks-<pid>.json exists
  merged,          \* the object mergeConfigs is about to write
  mcpServers,      \* the manifest built by spawnClaude
  claudeArgs,      \* the argument list handed to Bun.spawn
  childEnv,        \* the environment handed to Bun.spawn
  child,           \* "none" | "running" | "exited"
  childCode,       \* exit code of the subprocess, -1 before it exits
  exitStatus,      \* -1 while the launcher runs, else its exit status
  stderr,          \* messages written by console.warn / console.error
  run,             \* number of the launcher invocation
  isMiniMaxMode,   \* second argument of setupEnv (spawn.ts:144)
  isChutesMode,    \* third argument of setupEnv (spawn.ts:145)
  chutesModelArg,  \* fourth argument of setupEnv ("" when absent)
  slPc,            \* position of the status line run (src/bin/lib/statusline.ts)
  transcriptPath,  \* data.transcript_path ("" when absent)
  fsTranscript,    \* the transcript file
  workspaceDir,    \* data.workspace.current_dir (empty text when absent)
  dataCwd,         \* data.cwd (empty text when absent)
  homeDir,         \* os.homedir()
  gitProbe,        \* outcome of `git rev-parse --show-toplevel` in the directory
  settled,         \* the lookups of enrichData that have completed
  displayPath,     \* result of getDisplayPath
  msgCount,        \* result of countUserMessages
  tokenMetrics,    \* result of getTokenMetrics
  mostRecent,      \* the entry getTokenMetrics took as most recent
  stdout,          \* what the status line run wrote to standard output
  input,           \* the text the status line run reads (statusline.ts:321-322)
  inputData,       \* the parsed input: model, output_style, cost, version
  peerPc,          \* position of a second launcher invocation on the same machine
  peerMerged,      \* the object the second invocation's mergeConfigs is about to write
  assistantWrote,  \* "" or the launcher position at which the running assistant
                   \* wrote its own key to the base file
  baseAtStart      \* history: the base file when the invocations started

launcherVars == <<pc, argv, procEnv, args, isGlmMode, fsGlobal, fsClaude, fsMcp,
                  srcExists, targetExists, manifestExists, merged, mcpServers,
                  claudeArgs, childEnv, child, childCode, exitStatus, stderr, run>>

statusVars == <<slPc, transcriptPath, fsTranscript, workspaceDir, dataCwd, homeDir,
                gitProbe, settled, displayPath, msgCount, tokenMetrics, mostRecent,
                stdout>>

modeVars == <<isMiniMaxMode, isChutesMode, chutesModelArg>>

inputVars == <<input, inputData>>

peerVars == <<peerPc, peerMerged, assistantWrote, baseAtStart>>

vars == <<launcherVars, modeVars, peerVars, inputVars, statusVars>>

(***************************************************************************)
(* Bounds                                                                  *)
(***************************************************************************)
MaxTokenLen == 2
MaxCmdLen == 3
MaxServers == 2
MaxRuns == 2
MaxExitCode == 1
MaxLines == 3
MaxTime == 2
MaxDepth == 3

(***************************************************************************)
(* Text helpers                                                            *)
(***************************************************************************)
WhiteSpace == {" ", "\t", "\n"}

RECURSIVE SeqsUpTo(_, _)
SeqsUpTo(S, n) ==
  IF n = 0 THEN {<<>>}
  ELSE LET shorter == SeqsUpTo(S, n - 1)
       IN shorter \cup {Append(s, c) : s \in {t \in shorter : Len(t) = n - 1}, c \in S}

\* String.prototype.trim
RECURSIVE TrimStart(_)
TrimStart(s) ==
  IF s # <<>> /\ Head(s) \in WhiteSpace THEN TrimStart(Tail(s)) ELSE s

RECURSIVE TrimEnd(_)
TrimEnd(s) ==
  IF s # <<>> /\ s[Len(s)] \in WhiteSpace
  THEN TrimEnd(SubSeq(s, 1, Len(s) - 1)) ELSE s

Trim(s) == TrimEnd(TrimStart(s))

\* String.prototype.split(sep) for a one-character separator
RECURSIVE SplitAcc(_, _, _)
SplitAcc(s, sep, cur) ==
  IF s = <<>> THEN <<cur>>
  ELSE IF Head(s) = sep THEN <<cur>> \o SplitAcc(Tail(s), sep, <<>>)
  ELSE SplitAcc(Tail(s), sep, Append(cur, Head(s)))

Split(s, sep) == SplitAcc(s, sep, <<>>)

(***************************************************************************)
(* Files and JSON                                                          *)
(*   A text is "" (empty), something JSON.parse rejects (garbage), or the  *)
(*   serialization of a JSON value.  A top-level JSON value is             *)
(*   [isArray, v]: an object is a function from its keys, an array a       *)
(*   sequence.                                                             *)
(***************************************************************************)
EmptyText == [kind |-> "empty", val |-> <<>>]
GarbageText == [kind |-> "garbage", val |-> <<>>]

JSONStringify(value) == [kind |-> "json", val |-> value]

JsonObject(f) == [isArray |-> FALSE, v |-> f]
JsonArray(s) == [isArray |-> TRUE, v |-> s]
EmptyObject == JsonObject(<<>>)

AbsentFile == [exists |-> FALSE, readable |-> FALSE, text |-> EmptyText]
FileWith(text) == [exists |-> TRUE, readable |-> TRUE, text |-> text]
UnreadableFile == [exists |-> TRUE, readable |-> FALSE, text |-> GarbageText]

fileExists(file) == file.exists

safeRead(file) ==
  IF file.exists
  THEN (IF file.readable THEN file.text ELSE EmptyText)
  ELSE EmptyText

safeJsonParse(text) ==
  IF text.kind = "json" THEN text.val ELSE EmptyObject

safeJsonRead(file) ==
  LET content == safeRead(file)
  IN IF content.kind # "empty" THEN safeJsonParse(content) ELSE EmptyObject

(***************************************************************************)
(* Configuration merge: { ...global, ...claude }                           *)
(***************************************************************************)
\* a merge that also merges nested objects key by key
SpreadMergeDeep(global, claude) ==
  [isArray |-> FALSE,
   v |-> [k \in (DOMAIN global.v) \cup (DOMAIN claude.v) |->
            IF k \notin DOMAIN claude.v THEN global.v[k]
            ELSE IF k \in DOMAIN global.v /\ global.v[k].kind = "obj" /\ claude.v[k].kind = "obj"
                 THEN [claude.v[k] EXCEPT !.obj = claude.v[k].obj @@ global.v[k].obj]
                 ELSE claude.v[k]]]

\* a merge that concatenates arrays found under the same key
SpreadMergeConcat(global, claude) ==
  [isArray |-> FALSE,
   v |-> [k \in (DOMAIN global.v) \cup (DOMAIN claude.v) |->
            IF k \notin DOMAIN claude.v THEN global.v[k]
            ELSE IF k \in DOMAIN global.v /\ global.v[k].kind = "arr" /\ claude.v[k].kind = "arr"
                 THEN [claude.v[k] EXCEPT !.arr = global.v[k].arr \o claude.v[k].arr]
                 ELSE claude.v[k]]]

SpreadMerge(global, claude) ==
  JsonObject([k \in (DOMAIN global.v) \cup (DOMAIN claude.v) |->
                IF k \in DOMAIN claude.v THEN claude.v[k] ELSE global.v[k]])

(***************************************************************************)
(* Provider registry                                                       *)
(***************************************************************************)
\* a validator that tests the variable without trimming it
createTokenValidatorNoTrim(envVarName, env) ==
  \/ envVarName \notin DOMAIN env
  \/ env[envVarName] = <<>>

\* the validator returned by createTokenValidator(_, envVarName): TRUE iff it throws
createTokenValidator(envVarName, env) ==
  \/ envVarName \notin DOMAIN env
  \/ env[envVarName] = <<>>
  \/ Trim(env[envVarName]) = <<>>

validateAnthropicToken(env) == createTokenValidator("ANTHROPIC_AUTH_TOKEN", env)
validateZaiToken(env) == createTokenValidator("ZAI_API_KEY", env)
validateMiniMaxToken(env) == createTokenValidator("MINIMAX_API_KEY", env)
validateChutesToken(env) == createTokenValidator("CHUTES_API_KEY", env)

createProviderEnv(baseUrl, haikuModel, sonnetModel, opusModel) ==
  [ANTHROPIC_BASE_URL |-> baseUrl,
   API_TIMEOUT_MS |-> "3000000",
   ANTHROPIC_DEFAULT_HAIKU_MODEL |-> haikuModel,
   ANTHROPIC_DEFAULT_SONNET_MODEL |-> sonnetModel,
   ANTHROPIC_DEFAULT_OPUS_MODEL |-> opusModel]

glmEnv ==
  createProviderEnv("https://api.z.ai/api/anthropic", "glm-4.5-air", "glm-4.6", "glm-4.6")

minimaxEnv ==
  createProviderEnv("https://api.minimax.io/anthropic", "MiniMax-M2", "MiniMax-M2", "MiniMax-M2")

createChutesEnvWithModel(model) ==
  [ANTHROPIC_BASE_URL |-> "https://claude.chutes.ai",
   API_TIMEOUT_MS |-> "6000000",
   ANTHROPIC_DEFAULT_HAIKU_MODEL |-> model,
   ANTHROPIC_DEFAULT_SONNET_MODEL |-> model,
   ANTHROPIC_DEFAULT_OPUS_MODEL |-> model]

chutesEnv ==
  [createProviderEnv("https://claude.chutes.ai", "deepseek-ai/DeepSeek-V3.2",
                     "deepseek-ai/DeepSeek-V3.2", "deepseek-ai/DeepSeek-V3.2")
     EXCEPT !.API_TIMEOUT_MS = "6000000"]

conditional(condition, env) == IF condition THEN env ELSE <<>>

\* a spread in which the earlier object keeps its keys
SpreadEarlierWins(earlier, later) == earlier @@ later

\* a later spread overrides an earlier one
Spread(earlier, later) == later @@ earlier

EnvTruthy(env, name) == name \in DOMAIN env /\ env[name] # <<>>

setupEnv(env, glm, miniMax, chutes, chutesModel) ==
  LET e1 == Spread(env, conditional(glm, glmEnv))
      e2 == Spread(e1, conditional(miniMax, minimaxEnv))
      e3 == Spread(e2, conditional(chutes,
                         IF chutesModel # "" THEN createChutesEnvWithModel(chutesModel)
                         ELSE chutesEnv))
      e4 == Spread(e3, conditional(glm /\ EnvTruthy(env, "ZAI_API_KEY"),
                         IF "ZAI_API_KEY" \in DOMAIN env
                         THEN [ANTHROPIC_AUTH_TOKEN |-> env["ZAI_API_KEY"]] ELSE <<>>))
      e5 == Spread(e4, conditional(miniMax /\ EnvTruthy(env, "MINIMAX_API_KEY"),
                         IF "MINIMAX_API_KEY" \in DOMAIN env
                         THEN [ANTHROPIC_AUTH_TOKEN |-> env["MINIMAX_API_KEY"]] ELSE <<>>))
  IN Spread(e5, conditional(chutes /\ EnvTruthy(env, "CHUTES_API_KEY"),
                         IF "CHUTES_API_KEY" \in DOMAIN env
                         THEN [ANTHROPIC_AUTH_TOKEN |-> env["CHUTES_API_KEY"]] ELSE <<>>))

(***************************************************************************)
(* Tool manifest                                                           *)
(*   A descriptor is a function from the fields it carries: name (string), *)
(*   command (text), url (string), env (object), disabled (boolean), and   *)
(*   any other field (rest).                                               *)
(***************************************************************************)
NamedFields == {"name", "command", "url", "env", "disabled"}

Restrict(f, S) == [k \in S |-> f[k]]

\* a filter that keeps every descriptor
serverEnabledAlways(server) == TRUE

serverEnabled(server) == ~("disabled" \in DOMAIN server /\ server.disabled)

mcpEntry(server) ==
  LET hasCommand == "command" \in DOMAIN server /\ server.command # <<>>
      hasUrl == "url" \in DOMAIN server /\ server.url # ""
      hasEnv == "env" \in DOMAIN server
      parts == IF "command" \in DOMAIN server THEN Split(server.command, " ") ELSE <<>>
      rest == Restrict(server, (DOMAIN server) \ NamedFields)
      withCommand ==
        Spread(rest, IF hasCommand
                     THEN [type |-> "stdio", command |-> parts[1], args |-> Tail(parts)]
                     ELSE <<>>)
      withUrl ==
        Spread(withCommand, IF hasUrl THEN [type |-> "http", url |-> server.url] ELSE <<>>)
  IN Spread(withUrl, IF hasEnv THEN [env |-> server.env] ELSE <<>>)

RECURSIVE mcpReduce(_, _)
mcpReduce(acc, servers) ==
  IF servers = <<>> THEN acc
  ELSE mcpReduce(Spread(acc, Head(servers).name :> mcpEntry(Head(servers))), Tail(servers))

buildMcpServers(mcpArray) == mcpReduce(<<>>, SelectSeq(mcpArray, serverEnabled))

(***************************************************************************)
(* Subprocess arguments: a literal argument or a serialized JSON document  *)
(***************************************************************************)
Lit(s) == [kind |-> "lit", text |-> s, doc |-> <<>>]
Doc(value) == [kind |-> "json", text |-> "", doc |-> value]

LitArgs(strings) == [i \in 1..Len(strings) |-> Lit(strings[i])]

\* a composer that passes the manifest flags whatever the manifest holds
mcpFlagsAlways(servers) ==
  <<Lit("--mcp-config"), Doc(JSONStringify([mcpServers |-> servers])),
    Lit("--strict-mcp-config")>>

mcpFlags(servers) ==
  IF Cardinality(DOMAIN servers) > 0
  THEN <<Lit("--mcp-config"), Doc(JSONStringify([mcpServers |-> servers])),
         Lit("--strict-mcp-config")>>
  ELSE <<>>

\* spawn.ts:183-184
readMcpArray(file) ==
  LET mcpResult == safeJsonRead(file)
  IN IF mcpResult.isArray THEN mcpResult.v ELSE <<>>

(***************************************************************************)
(* Inputs of the launcher                                                  *)
(***************************************************************************)
\* values of a top-level configuration key: a number, a nested object, an array
Num(n) == [kind |-> "num", num |-> n, obj |-> <<>>, arr |-> <<>>]
Obj(f) == [kind |-> "obj", num |-> 0, obj |-> f, arr |-> <<>>]
Arr(s) == [kind |-> "arr", num |-> 0, obj |-> <<>>, arr |-> s]

ConfigValues == {Num(1), Num(2), Obj([x |-> 1]), Obj([y |-> 2]), Arr(<<1>>), Arr(<<2>>)}

PartialFunctions(Keys, Values) ==
  UNION {[K -> Values] : K \in SUBSET Keys}

ExampleBase == [a |-> Num(1), b |-> Num(2)]
ExampleOverride == [b |-> Num(3), c |-> Num(4)]
ExampleMerged == [a |-> Num(1), b |-> Num(3), c |-> Num(4)]

BaseObjects == PartialFunctions({"a", "b"}, ConfigValues) \cup {ExampleBase}
OverrideObjects == PartialFunctions({"b", "c"}, ConfigValues) \cup {ExampleOverride}

ConfigFile(object) == FileWith(JSONStringify(JsonObject(object)))

FewBaseFiles ==
  {AbsentFile, FileWith(GarbageText), ConfigFile(ExampleBase), ConfigFile([b |-> Obj([x |-> 1])])}

FewOverrideFiles ==
  {AbsentFile, FileWith(GarbageText), ConfigFile(ExampleOverride), ConfigFile([b |-> Obj([y |-> 2])])}

Tokens == SeqsUpTo({" ", "\t", "k"}, MaxTokenLen)

Environments ==
  {e \in PartialFunctions({"ANTHROPIC_AUTH_TOKEN", "ZAI_API_KEY"}, Tokens) :
     "ZAI_API_KEY" \in DOMAIN e => e["ZAI_API_KEY"] \in {<<"k">>}}

ArgLists == {<<>>, <<"--glm">>, <<"-p", "--glm">>, <<"--glm", "-c", "--glm">>, <<"-c">>}

CommandTexts ==
  SeqsUpTo({" ", "\t", "d"}, MaxCmdLen) \cup {<<"d", " ", "m", " ", "r">>}

FewCommands == {<<"d", " ", "m">>}

ServerNames == {"a", "b"}

Optional(field, values) == {<<>>} \cup {field :> value : value \in values}

Descriptors(commands, urls, envs, extras) ==
  {("name" :> n) @@ c @@ u @@ e @@ d @@ x :
     n \in ServerNames,
     c \in Optional("command", commands),
     u \in Optional("url", urls),
     e \in Optional("env", envs),
     d \in Optional("disabled", BOOLEAN),
     x \in Optional("timeout", extras)}

RichDescriptors ==
  {d \in Descriptors(CommandTexts, {"", "https://u"}, {[KEY |-> "v"]}, {30}) : d.name = "a"}

FewDescriptors ==
  Descriptors(FewCommands, {"https://u"}, {}, {})

McpArrays ==
  {<<d>> : d \in RichDescriptors} \cup SeqsUpTo(FewDescriptors, MaxServers)

McpFile(array) == FileWith(JSONStringify(JsonArray(array)))

FewMcpFiles ==
  {AbsentFile, FileWith(GarbageText), FileWith(JSONStringify(EmptyObject)),
   McpFile(<<>>),
   McpFile(<<[name |-> "a", command |-> <<"d", " ", "m">>, disabled |-> TRUE]>>),
   McpFile(<<[name |-> "a", command |-> <<"d", " ", "m">>]>>),
   McpFile(<<[name |-> "a", url |-> "https://u"],
             [name |-> "b", command |-> <<"d">>, disabled |-> TRUE]>>)}

(***************************************************************************)
(* The launcher: main() of src/bin/lib/claude/index.ts                     *)
(***************************************************************************)
NoTranscript == [exists |-> FALSE, readable |-> FALSE, lines |-> <<>>]
NoProbe == [ok |-> FALSE, out |-> <<>>]
Pending == [rejected |-> FALSE, value |-> 0]
NoEntry == [found |-> FALSE, entry |-> <<>>]

\* statusline.ts:44-55: the fields of the input besides transcript_path, cwd
\* and workspace; model, output_style and cost are objects
NoInput == [head |-> <<>>, kind |-> "none", fields |-> <<>>]

FullData ==
  [model |-> [display_name |-> "Opus"],
   output_style |-> [name |-> "default"],
   cost |-> [total_cost_usd |-> 1],
   version |-> "1.0"]

\* an input text: lines before the JSON text, then the JSON text itself
ObjectInput(head, fields) == [head |-> head, kind |-> "object", fields |-> fields]
GarbageInput == [head |-> <<>>, kind |-> "garbage", fields |-> <<>>]

FullInput == ObjectInput(<<>>, FullData)

InputIdle ==
  /\ input = NoInput
  /\ inputData = <<>>

PeerIdle ==
  /\ peerPc = "idle"
  /\ peerMerged = EmptyObject
  /\ assistantWrote = ""
  /\ baseAtStart = fsGlobal

\* no status line run
StatusIdle ==
  /\ InputIdle
  /\ slPc = "idle"
  /\ transcriptPath = ""
  /\ fsTranscript = NoTranscript
  /\ workspaceDir = <<>>
  /\ dataCwd = <<>>
  /\ homeDir = <<>>
  /\ gitProbe = NoProbe
  /\ settled = {}
  /\ displayPath = <<>>
  /\ msgCount = Pending
  /\ tokenMetrics = Pending
  /\ mostRecent = NoEntry
  /\ stdout = <<>>

IndexOf(list, x) ==
  IF \E i \in 1..Len(list) : list[i] = x
  THEN CHOOSE i \in 1..Len(list) : list[i] = x /\ \A j \in 1..(i - 1) : list[j] # x
  ELSE 0

\* Array.prototype.splice(index, 1)
Splice(list, index) ==
  SubSeq(list, 1, index - 1) \o SubSeq(list, index + 1, Len(list))

LauncherInit(argLists, environments, globals, claudes, mcps, sources) ==
  /\ pc = "start"
  /\ argv \in argLists
  /\ procEnv \in environments
  /\ fsGlobal \in globals
  /\ fsClaude \in claudes
  /\ fsMcp \in mcps
  /\ srcExists \in sources
  /\ args = <<>>
  /\ isGlmMode = FALSE
  /\ targetExists = FALSE
  /\ manifestExists = FALSE
  /\ merged = EmptyObject
  /\ mcpServers = <<>>
  /\ claudeArgs = <<>>
  /\ childEnv = <<>>
  /\ child = "none"
  /\ childCode = -1
  /\ exitStatus = -1
  /\ stderr = <<>>
  /\ run = 1
  /\ isMiniMaxMode = FALSE
  /\ isChutesMode = FALSE
  /\ chutesModelArg = ""
  /\ PeerIdle

Init ==
  /\ LauncherInit(ArgLists, Environments, FewBaseFiles, FewOverrideFiles, FewMcpFiles, BOOLEAN)
  /\ StatusIdle

\* index.ts:33-45: read the arguments, strip --glm, validate the credential
Start ==
  /\ pc = "start"
  /\ LET glmIndex == IndexOf(argv, "--glm")
         glm == glmIndex # 0
     IN /\ isGlmMode' = glm
        /\ args' = IF glm THEN Splice(argv, glmIndex) ELSE argv
        /\ pc' = IF glm /\ validateAnthropicToken(procEnv) THEN "catch" ELSE "sync"
  /\ UNCHANGED <<argv, procEnv, fsGlobal, fsClaude, fsMcp, srcExists, targetExists,
                 manifestExists, merged, mcpServers, claudeArgs, childEnv, child,
                 childCode, exitStatus, stderr, run,
                 modeVars, peerVars, inputVars, statusVars>>

\* instructions.ts:12-17; safeWrite logs a warning when the write fails
SyncInstructions ==
  /\ pc = "sync"
  /\ \/ /\ ~srcExists
        /\ UNCHANGED <<targetExists, stderr>>
     \/ /\ srcExists
        /\ targetExists' = TRUE
        /\ UNCHANGED stderr
     \/ /\ srcExists
        /\ stderr' = Append(stderr, "File write failed")
        /\ UNCHANGED targetExists
  /\ pc' = "merge"
  /\ UNCHANGED <<argv, procEnv, args, isGlmMode, fsGlobal, fsClaude, fsMcp, srcExists,
                 manifestExists, merged, mcpServers, claudeArgs, childEnv, child,
                 childCode, exitStatus, run,
                 modeVars, peerVars, inputVars, statusVars>>

\* a merge that writes the base file also when there is no override file
MergeSkipWrites ==
  /\ pc = "merge"
  /\ ~fileExists(fsClaude)
  /\ fsGlobal' = FileWith(JSONStringify(SpreadMerge(safeJsonRead(fsGlobal), EmptyObject)))
  /\ pc' = "symlinks"
  /\ UNCHANGED <<argv, procEnv, args, isGlmMode, fsClaude, fsMcp, srcExists,
                 targetExists, manifestExists, merged, mcpServers, claudeArgs, childEnv,
                 child, childCode, exitStatus, stderr, run,
                 modeVars, peerVars, inputVars, statusVars>>

\* merge.ts:14,25: the override file does not exist
MergeSkip ==
  /\ pc = "merge"
  /\ ~fileExists(fsClaude)
  /\ pc' = "symlinks"
  /\ UNCHANGED <<argv, procEnv, args, isGlmMode, fsGlobal, fsClaude, fsMcp, srcExists,
                 targetExists, manifestExists, merged, mcpServers, claudeArgs, childEnv,
                 child, childCode, exitStatus, stderr, run,
                 modeVars, peerVars, inputVars, statusVars>>

\* merge.ts:14-19: read both files and spread them
MergeRead ==
  /\ pc = "merge"
  /\ fileExists(fsClaude)
  /\ merged' = SpreadMerge(safeJsonRead(fsGlobal), safeJsonRead(fsClaude))
  /\ pc' = "write"
  /\ UNCHANGED <<argv, procEnv, args, isGlmMode, fsGlobal, fsClaude, fsMcp, srcExists,
                 targetExists, manifestExists, mcpServers, claudeArgs, childEnv,
                 child, childCode, exitStatus, stderr, run,
                 modeVars, peerVars, inputVars, statusVars>>

\* a merge that reads the base file again when it writes
MergeWriteRereads ==
  /\ pc = "write"
  /\ fsGlobal' = FileWith(JSONStringify(SpreadMerge(safeJsonRead(fsGlobal),
                                                    safeJsonRead(fsClaude))))
  /\ pc' = "symlinks"
  /\ UNCHANGED <<argv, procEnv, args, isGlmMode, fsClaude, fsMcp, srcExists,
                 targetExists, manifestExists, merged, mcpServers, claudeArgs, childEnv,
                 child, childCode, exitStatus, stderr, run,
                 modeVars, peerVars, inputVars, statusVars>>

\* merge.ts:20-23: Bun.write(paths.global, JSON.stringify(merged, null, 2))
MergeWrite ==
  /\ pc = "write"
  /\ fsGlobal' = FileWith(JSONStringify(merged))
  /\ pc' = "symlinks"
  /\ UNCHANGED <<argv, procEnv, args, isGlmMode, fsClaude, fsMcp, srcExists,
                 targetExists, manifestExists, merged, mcpServers, claudeArgs, childEnv,
                 child, childCode, exitStatus, stderr, run,
                 modeVars, peerVars, inputVars, statusVars>>

\* merge.ts:24: the write is rejected, the merge is abandoned with a warning
MergeWriteFail ==
  /\ pc = "write"
  /\ stderr' = Append(stderr, "Config merge failed")
  /\ pc' = "symlinks"
  /\ UNCHANGED <<argv, procEnv, args, isGlmMode, fsGlobal, fsClaude, fsMcp, srcExists,
                 targetExists, manifestExists, merged, mcpServers, claudeArgs, childEnv,
                 child, childCode, exitStatus, run,
                 modeVars, peerVars, inputVars, statusVars>>

\* createAndSaveSymlinks (src/unnamed/part_018:17-37); safeJsonWrite swallows a failed write
CreateAndSaveSymlinks ==
  /\ pc = "symlinks"
  /\ \E written \in BOOLEAN : manifestExists' = written
  /\ pc' = "spawn"
  /\ UNCHANGED <<argv, procEnv, args, isGlmMode, fsGlobal, fsClaude, fsMcp, srcExists,
                 targetExists, merged, mcpServers, claudeArgs, childEnv, child,
                 childCode, exitStatus, stderr, run,
                 modeVars, peerVars, inputVars, statusVars>>

\* a launcher that does not await mergeConfigs before it spawns
SpawnClaudeWithoutAwait ==
  /\ pc \in {"write", "spawn"}
  /\ childEnv' = setupEnv(procEnv, isGlmMode, FALSE, FALSE, "")
  /\ LET servers == buildMcpServers(readMcpArray(fsMcp))
     IN /\ mcpServers' = servers
        /\ claudeArgs' = LitArgs(args) \o mcpFlags(servers)
  /\ child' = "running"
  /\ pc' = "running"
  /\ UNCHANGED <<argv, procEnv, args, isGlmMode, fsGlobal, fsClaude, fsMcp, srcExists,
                 targetExists, manifestExists, merged, childCode, exitStatus, stderr, run,
                 modeVars, peerVars, inputVars, statusVars>>

\* index.ts:50-51, spawn.ts:176-198: build the environment and the arguments, spawn
SpawnClaude ==
  /\ pc = "spawn"
  /\ childEnv' = setupEnv(procEnv, isGlmMode, FALSE, FALSE, "")
  /\ LET servers == buildMcpServers(readMcpArray(fsMcp))
     IN /\ mcpServers' = servers
        /\ claudeArgs' = LitArgs(args) \o mcpFlags(servers)
  /\ child' = "running"
  /\ pc' = "running"
  /\ UNCHANGED <<argv, procEnv, args, isGlmMode, fsGlobal, fsClaude, fsMcp, srcExists,
                 targetExists, manifestExists, merged, childCode, exitStatus, stderr, run,
                 modeVars, peerVars, inputVars, statusVars>>

\* Bun.spawn throws (the command cannot be started): main() rejects
SpawnFail ==
  /\ pc = "spawn"
  /\ pc' = "catch"
  /\ UNCHANGED <<argv, procEnv, args, isGlmMode, fsGlobal, fsClaude, fsMcp, srcExists,
                 targetExists, manifestExists, merged, mcpServers, claudeArgs, childEnv,
                 child, childCode, exitStatus, stderr, run,
                 modeVars, peerVars, inputVars, statusVars>>

\* a launcher that cleans up only after a subprocess that succeeded
ChildExitCleansOnSuccess ==
  /\ pc = "running"
  /\ \E code \in 0..MaxExitCode :
       /\ childCode' = code
       /\ pc' = IF code = 0 THEN "cleanup" ELSE "exit"
  /\ child' = "exited"
  /\ UNCHANGED <<argv, procEnv, args, isGlmMode, fsGlobal, fsClaude, fsMcp, srcExists,
                 targetExists, manifestExists, merged, mcpServers, claudeArgs, childEnv,
                 exitStatus, stderr, run,
                 modeVars, peerVars, inputVars, statusVars>>

\* index.ts:52: await proc.exited
ChildExit ==
  /\ pc = "running"
  /\ \E code \in 0..MaxExitCode : childCode' = code
  /\ child' = "exited"
  /\ pc' = "cleanup"
  /\ UNCHANGED <<argv, procEnv, args, isGlmMode, fsGlobal, fsClaude, fsMcp, srcExists,
                 targetExists, manifestExists, merged, mcpServers, claudeArgs, childEnv,
                 exitStatus, stderr, run,
                 modeVars, peerVars, inputVars, statusVars>>

\* fs.ts:37-43: safeDelete removes an existing file, or fails without a trace
safeDelete(exists) == IF exists THEN BOOLEAN ELSE {FALSE}

\* index.ts:26-27, 53: await cleanup(): the instructions target, the symlinks
\* of the manifest and the manifest itself are deleted
Cleanup ==
  /\ pc = "cleanup"
  /\ targetExists' \in safeDelete(targetExists)
  /\ manifestExists' \in safeDelete(manifestExists)
  /\ pc' = "exit"
  /\ UNCHANGED <<argv, procEnv, args, isGlmMode, fsGlobal, fsClaude, fsMcp, srcExists,
                 merged, mcpServers, claudeArgs, childEnv, child, childCode, exitStatus,
                 stderr, run,
                 modeVars, peerVars, inputVars, statusVars>>

\* a launcher that exits with the exit code of its subprocess
ExitWithChildCode ==
  /\ pc = "exit"
  /\ exitStatus' = childCode
  /\ pc' = "done"
  /\ UNCHANGED <<argv, procEnv, args, isGlmMode, fsGlobal, fsClaude, fsMcp, srcExists,
                 targetExists, manifestExists, merged, mcpServers, claudeArgs, childEnv,
                 child, childCode, stderr, run,
                 modeVars, peerVars, inputVars, statusVars>>

\* index.ts:54: process.exit(0)
Exit ==
  /\ pc = "exit"
  /\ exitStatus' = 0
  /\ pc' = "done"
  /\ UNCHANGED <<argv, procEnv, args, isGlmMode, fsGlobal, fsClaude, fsMcp, srcExists,
                 targetExists, manifestExists, merged, mcpServers, claudeArgs, childEnv,
                 child, childCode, stderr, run,
                 modeVars, peerVars, inputVars, statusVars>>

\* index.ts:57: main().catch((err) => cleanup().finally(() => die(err)))
CatchAndDie ==
  /\ pc = "catch"
  /\ targetExists' \in safeDelete(targetExists)
  /\ manifestExists' \in safeDelete(manifestExists)
  /\ stderr' = Append(stderr, "Error")
  /\ exitStatus' = 1
  /\ pc' = "done"
  /\ UNCHANGED <<argv, procEnv, args, isGlmMode, fsGlobal, fsClaude, fsMcp, srcExists,
                 merged, mcpServers, claudeArgs, childEnv, child, childCode, run,
                 modeVars, peerVars, inputVars, statusVars>>

Next ==
  \/ Start
  \/ SyncInstructions
  \/ MergeSkip
  \/ MergeRead
  \/ MergeWrite
  \/ MergeWriteFail
  \/ CreateAndSaveSymlinks
  \/ SpawnClaude
  \/ SpawnFail
  \/ ChildExit
  \/ Cleanup
  \/ Exit
  \/ CatchAndDie

Spec == Init /\ [][Next]_vars

(***************************************************************************)
(* The configuration merge on its own: every base and override object, and *)
(* a following launch that reaches mergeConfigs again with the files as    *)
(* the previous launch left them.                                          *)
(***************************************************************************)
MergeInit ==
  /\ LauncherInit({<<>>}, {<<>>},
                  {ConfigFile(b) : b \in BaseObjects} \cup {AbsentFile, FileWith(GarbageText)},
                  {ConfigFile(o) : o \in OverrideObjects} \cup {AbsentFile},
                  {AbsentFile}, BOOLEAN)
  /\ StatusIdle

\* the rest of a launch leaves the configuration files alone; the next launch
\* on the same machine and terminal begins
Relaunch ==
  /\ pc = "symlinks"
  /\ run < MaxRuns
  /\ run' = run + 1
  /\ merged' = EmptyObject
  /\ pc' = "start"
  /\ UNCHANGED <<argv, procEnv, args, isGlmMode, fsGlobal, fsClaude, fsMcp, srcExists,
                 targetExists, manifestExists, mcpServers, claudeArgs, childEnv,
                 child, childCode, exitStatus, stderr,
                 modeVars, peerVars, inputVars, statusVars>>

MergeNext ==
  \/ Start
  \/ SyncInstructions
  \/ MergeSkip
  \/ MergeRead
  \/ MergeWrite
  \/ MergeWriteFail
  \/ Relaunch

SpecMerge == MergeInit /\ [][MergeNext]_vars

Parses(file) == file.exists /\ file.readable /\ file.text.kind = "json"

ObjectOf(file) == file.text.val.v

\* C2: when base B and override O both parse, the object written to the base
\* file has exactly the keys of B and O, O's value for every key of O (whole,
\* no deep merge, no concatenation) and B's value for every other key; the
\* example {a:1,b:2} with {b:3,c:4} gives {a:1,b:3,c:4}.
C2_ShallowMerge ==
  [][(pc = "write" /\ pc' = "symlinks" /\ stderr' = stderr
        /\ Parses(fsGlobal) /\ Parses(fsClaude)) =>
       /\ Parses(fsGlobal')
       /\ ~fsGlobal'.text.val.isArray
       /\ LET B == ObjectOf(fsGlobal)
              O == ObjectOf(fsClaude)
              P == ObjectOf(fsGlobal')
          IN /\ DOMAIN P = (DOMAIN B) \cup (DOMAIN O)
             /\ \A k \in DOMAIN O : P[k] = O[k]
             /\ \A k \in (DOMAIN B) \ (DOMAIN O) : P[k] = B[k]
             /\ (B = ExampleBase /\ O = ExampleOverride) => P = ExampleMerged]_vars

C2_Witness ==
  /\ pc = "symlinks"
  /\ run = 1
  /\ stderr = <<>>
  /\ fsClaude = ConfigFile(ExampleOverride)
  /\ fsGlobal = ConfigFile(ExampleMerged)

\* C3: the merge is idempotent: a launch that follows a launch whose merge was
\* written, with the override file unchanged, writes the base file back with
\* the content it already had.
C3_Idempotent ==
  [][(run > 1 /\ stderr = <<>> /\ pc = "write" /\ pc' = "symlinks") =>
       fsGlobal' = fsGlobal]_vars

C3_Witness ==
  /\ run = 2
  /\ pc = "symlinks"
  /\ stderr = <<>>
  /\ Parses(fsClaude)
  /\ Parses(fsGlobal)
  /\ ObjectOf(fsClaude) = [b |-> Arr(<<2>>), c |-> Obj([y |-> 2])]
  /\ ObjectOf(fsGlobal) = [a |-> Arr(<<1>>), b |-> Arr(<<2>>), c |-> Obj([y |-> 2])]

(***************************************************************************)
(* Properties of the launcher                                              *)
(***************************************************************************)
ProviderSelected == \E i \in 1..Len(argv) : argv[i] = "--glm"

\* unset, empty or whitespace-only
BlankVariable(env, name) ==
  name \in DOMAIN env => \A i \in 1..Len(env[name]) : env[name][i] \in WhiteSpace

ManifestInit ==
  /\ LauncherInit({<<"-p">>}, {<<>>}, {AbsentFile}, {AbsentFile},
                  {McpFile(a) : a \in McpArrays}
                    \cup {AbsentFile, FileWith(GarbageText), FileWith(JSONStringify(EmptyObject))},
                  {FALSE})
  /\ StatusIdle

ManifestNext ==
  \/ Start
  \/ SyncInstructions
  \/ MergeSkip
  \/ CreateAndSaveSymlinks
  \/ SpawnClaude

SpecManifest == ManifestInit /\ [][ManifestNext]_vars

IsDisabled(server) == "disabled" \in DOMAIN server /\ server.disabled = TRUE

RemoveAt(list, i) == SubSeq(list, 1, i - 1) \o SubSeq(list, i + 1, Len(list))

DeclaredArray ==
  IF Parses(fsMcp) /\ fsMcp.text.val.isArray THEN fsMcp.text.val.v ELSE <<>>

\* C4: a descriptor with disabled == true contributes nothing to the manifest:
\* the manifest equals the one built from the list without that descriptor,
\* and its name is a key only when an enabled descriptor carries that name.
C4_DisabledDropped ==
  pc = "running" =>
    \A i \in 1..Len(DeclaredArray) :
      IsDisabled(DeclaredArray[i]) =>
        /\ mcpServers = buildMcpServers(RemoveAt(DeclaredArray, i))
        /\ DeclaredArray[i].name \in DOMAIN mcpServers =>
             \E j \in 1..Len(DeclaredArray) :
               /\ ~IsDisabled(DeclaredArray[j])
               /\ DeclaredArray[j].name = DeclaredArray[i].name

C4_Witness ==
  /\ pc = "running"
  /\ Len(DeclaredArray) = 2
  /\ IsDisabled(DeclaredArray[1])
  /\ "command" \in DOMAIN DeclaredArray[1]
  /\ "url" \in DOMAIN DeclaredArray[1]
  /\ ~IsDisabled(DeclaredArray[2])
  /\ DeclaredArray[2].name # DeclaredArray[1].name
  /\ DOMAIN mcpServers = {DeclaredArray[2].name}

\* the whitespace-delimited tokens of a text
RECURSIVE WordsAcc(_, _)
WordsAcc(s, cur) ==
  IF s = <<>> THEN (IF cur = <<>> THEN <<>> ELSE <<cur>>)
  ELSE IF Head(s) \in WhiteSpace
       THEN (IF cur = <<>> THEN <<>> ELSE <<cur>>) \o WordsAcc(Tail(s), <<>>)
       ELSE WordsAcc(Tail(s), Append(cur, Head(s)))

Words(s) == WordsAcc(s, <<>>)

\* the descriptor that decides the entry of its name: enabled, and no later
\* enabled descriptor has the same name
Decides(i) ==
  /\ ~IsDisabled(DeclaredArray[i])
  /\ \A j \in (i + 1)..Len(DeclaredArray) :
       IsDisabled(DeclaredArray[j]) \/ DeclaredArray[j].name # DeclaredArray[i].name

\* C5: for an enabled descriptor with a command (and no url) the entry is
\* stdio, its command the first whitespace-delimited token and its args the
\* remaining tokens in order, whatever the spacing of the command string.
C5_CommandTokens ==
  pc = "running" =>
    \A i \in 1..Len(DeclaredArray) :
      LET d == DeclaredArray[i]
      IN (/\ Decides(i)
          /\ "command" \in DOMAIN d
          /\ "url" \notin DOMAIN d
          /\ Words(d.command) # <<>>) =>
            /\ d.name \in DOMAIN mcpServers
            /\ {"type", "command", "args"} \subseteq DOMAIN mcpServers[d.name]
            /\ mcpServers[d.name].type = "stdio"
            /\ mcpServers[d.name].command = Head(Words(d.command))
            /\ mcpServers[d.name].args = Tail(Words(d.command))

\* C6: the arguments are the caller's arguments followed by the manifest flags
\* when the manifest has a key, and by nothing otherwise; with no descriptor,
\* or only disabled ones, the manifest is empty and no flag and no serialized
\* manifest is passed.
C6_FlagsIffManifest ==
  pc = "running" =>
    LET n == Len(args)
        suffix == SubSeq(claudeArgs, n + 1, Len(claudeArgs))
    IN /\ Len(claudeArgs) >= n
       /\ SubSeq(claudeArgs, 1, n) = LitArgs(args)
       /\ DOMAIN mcpServers # {} =>
            suffix = <<Lit("--mcp-config"),
                       Doc(JSONStringify([mcpServers |-> mcpServers])),
                       Lit("--strict-mcp-config")>>
       /\ DOMAIN mcpServers = {} => suffix = <<>>
       /\ (\A i \in 1..Len(DeclaredArray) : IsDisabled(DeclaredArray[i])) =>
            /\ DOMAIN mcpServers = {}
            /\ \A k \in 1..Len(claudeArgs) :
                 /\ claudeArgs[k].kind = "lit"
                 /\ claudeArgs[k].text \notin {"--mcp-config", "--strict-mcp-config"}

C6_Witness ==
  /\ pc = "running"
  /\ Len(DeclaredArray) = 2
  /\ \A i \in 1..2 : IsDisabled(DeclaredArray[i]) /\ "command" \in DOMAIN DeclaredArray[i]
  /\ claudeArgs = LitArgs(<<"-p">>)

(***************************************************************************)
(* The status line: src/bin/lib/statusline.ts                              *)
(*   A transcript line is blank, text that JSON.parse rejects (garbage,    *)
(*   possibly starting with a brace), or the text of a JSON value: null, a *)
(*   scalar, or an object (entry).  indent: the line starts with white     *)
(*   space.  Loosely typed fields hold the JSON literal they were given.   *)
(***************************************************************************)
BlankLine == [kind |-> "blank", indent |-> FALSE, entry |-> <<>>]
GarbageLine == [kind |-> "garbage", indent |-> FALSE, entry |-> <<>>]
BraceGarbageLine == [kind |-> "bracegarbage", indent |-> FALSE, entry |-> <<>>]
NullLine == [kind |-> "null", indent |-> FALSE, entry |-> <<>>]
ScalarLine == [kind |-> "scalar", indent |-> FALSE, entry |-> <<>>]
ObjectLine(entry, indent) == [kind |-> "object", indent |-> indent, entry |-> entry]

TranscriptFile(lines) == [exists |-> TRUE, readable |-> TRUE, lines |-> lines]
UnreadableTranscript == [exists |-> TRUE, readable |-> FALSE, lines |-> <<>>]

\* JavaScript truthiness of a JSON literal
Truthy(literal) == literal \notin {"\"\"", "false", "null", "0"}

\* line.trim() is not empty
NotBlank(line) == line.kind # "blank"

\* line.startsWith("{")
StartsWithBrace(line) == ~line.indent /\ line.kind \in {"object", "bracegarbage"}

\* JSON.parse(line) throws
ParseThrows(line) == line.kind \in {"blank", "garbage", "bracegarbage"}

\* safeRead(path).then(content => content.split("\n")): a missing, unreadable
\* or empty file reads as "", which splits into one empty line
readLines(file) ==
  IF file.exists /\ file.readable /\ file.lines # <<>> THEN file.lines ELSE <<BlankLine>>

Markers == {"<command-name>", "<local-command-stdout>", "Caveat: The messages below"}

Str(chunks) == [kind |-> "string", text |-> chunks]
Blocks(chunks) == [kind |-> "blocks", text |-> chunks]
ObjectContent == [kind |-> "object", text |-> <<>>]

\* entry.message?.content || ""
contentOf(entry) ==
  IF "message" \in DOMAIN entry /\ "content" \in DOMAIN entry.message
  THEN entry.message.content ELSE Str(<<>>)

\* msg.includes(pattern): substring test on a string, element test on an
\* array (whose elements are block objects), not a function on an object
Includes(msg, pattern) ==
  msg.kind = "string" /\ \E i \in 1..Len(msg.text) : msg.text[i] = pattern

\* statusline.ts:199-213: "true", "false", or "throw" when the chain rejects
isUserMessageBody(line) ==
  IF ParseThrows(line) \/ line.kind = "null" THEN "throw"
  ELSE IF line.kind = "scalar" THEN "false"
  ELSE LET entry == line.entry
           msg == contentOf(entry)
       IN IF ~("type" \in DOMAIN entry /\ entry.type = "user") THEN "false"
          ELSE IF "toolUseResult" \in DOMAIN entry /\ Truthy(entry.toolUseResult) THEN "false"
          ELSE IF "isMeta" \in DOMAIN entry /\ Truthy(entry.isMeta) THEN "false"
          ELSE IF msg.kind = "object" THEN "throw"
          ELSE IF \E pattern \in Markers : Includes(msg, pattern) THEN "false"
          ELSE "true"

\* a classifier without the catch handler
isUserMessageNoCatch(line) == isUserMessageBody(line)

\* a classifier whose catch handler answers true
isUserMessageCatchTrue(line) ==
  IF isUserMessageBody(line) = "throw" THEN "true" ELSE isUserMessageBody(line)

\* statusline.ts:198-214, with .catch(() => false)
isUserMessage(line) ==
  IF isUserMessageBody(line) = "throw" THEN "false" ELSE isUserMessageBody(line)

Settled(value) == [rejected |-> FALSE, value |-> value]
Rejected == [rejected |-> TRUE, value |-> 0]

\* statusline.ts:225-231
countUserMessages(path, file) ==
  IF path = "" THEN Settled(0)
  ELSE LET lines == SelectSeq(readLines(file), NotBlank)
       IN IF \E i \in 1..Len(lines) : isUserMessage(lines[i]) = "throw"
          THEN Rejected
          ELSE Settled(Cardinality({i \in 1..Len(lines) : isUserMessage(lines[i]) = "true"}))

hasUsage(data) == "message" \in DOMAIN data /\ "usage" \in DOMAIN data.message

\* a filter that lets side-chain entries through
qualifiesWithSidechain(data) ==
  /\ hasUsage(data)
  /\ "timestamp" \in DOMAIN data

\* statusline.ts:242
qualifies(data) ==
  /\ hasUsage(data)
  /\ ~("isSidechain" \in DOMAIN data /\ data.isSidechain = "true")
  /\ "timestamp" \in DOMAIN data

\* statusline.ts:239-245: "throw", or the list [data] or []
parseLineForMetricsBody(line) ==
  IF ParseThrows(line) \/ line.kind = "null" THEN [throw |-> TRUE, list |-> <<>>]
  ELSE IF line.kind = "scalar" THEN [throw |-> FALSE, list |-> <<>>]
  ELSE [throw |-> FALSE, list |-> IF qualifies(line.entry) THEN <<line.entry>> ELSE <<>>]

\* a parser without the catch handler
parseLineForMetricsNoCatch(line) == parseLineForMetricsBody(line)

\* statusline.ts:238-246, with .catch(() => [])
parseLineForMetrics(line) ==
  IF parseLineForMetricsBody(line).throw
  THEN [throw |-> FALSE, list |-> <<>>] ELSE parseLineForMetricsBody(line)

MetricsLine(line) == NotBlank(line) /\ StartsWithBrace(line)

RECURSIVE Flat(_)
Flat(results) ==
  IF results = <<>> THEN <<>> ELSE Head(results).list \o Flat(Tail(results))

\* a sort that places an entry before the entries of equal timestamp
RECURSIVE InsertByTimestampBeforeTies(_, _)
InsertByTimestampBeforeTies(sorted, e) ==
  IF sorted = <<>> THEN <<e>>
  ELSE IF sorted[Len(sorted)].timestamp < e.timestamp THEN Append(sorted, e)
  ELSE Append(InsertByTimestampBeforeTies(SubSeq(sorted, 1, Len(sorted) - 1), e),
              sorted[Len(sorted)])

\* Array.prototype.sort with (a, b) => time(a) - time(b): stable, ascending
RECURSIVE InsertByTimestamp(_, _)
InsertByTimestamp(sorted, e) ==
  IF sorted = <<>> THEN <<e>>
  ELSE IF sorted[Len(sorted)].timestamp <= e.timestamp THEN Append(sorted, e)
  ELSE Append(InsertByTimestamp(SubSeq(sorted, 1, Len(sorted) - 1), e), sorted[Len(sorted)])

RECURSIVE SortByTimestamp(_)
SortByTimestamp(entries) ==
  IF entries = <<>> THEN <<>>
  ELSE InsertByTimestamp(SortByTimestamp(SubSeq(entries, 1, Len(entries) - 1)),
                         entries[Len(entries)])

Counter(usage, name) == IF name \in DOMAIN usage THEN usage[name] ELSE 0

\* statusline.ts:274-280
contextLengthOf(usage) ==
  Counter(usage, "input_tokens") + Counter(usage, "cache_read_input_tokens")
    + Counter(usage, "cache_creation_input_tokens")

\* statusline.ts:257-273: the entry taken as most recent, and whether the chain rejects
selectMostRecent(path, file) ==
  IF path = "" THEN [rejected |-> FALSE, found |-> FALSE, entry |-> <<>>]
  ELSE LET lines == SelectSeq(readLines(file), MetricsLine)
           results == [i \in 1..Len(lines) |-> parseLineForMetrics(lines[i])]
           sorted == SortByTimestamp(Flat(results))
       IN IF \E i \in 1..Len(lines) : results[i].throw
          THEN [rejected |-> TRUE, found |-> FALSE, entry |-> <<>>]
          ELSE IF sorted = <<>> THEN [rejected |-> FALSE, found |-> FALSE, entry |-> <<>>]
          ELSE [rejected |-> FALSE, found |-> TRUE, entry |-> sorted[Len(sorted)]]

\* statusline.ts:257-281
getTokenMetrics(path, file) ==
  LET chosen == selectMostRecent(path, file)
  IN IF chosen.rejected THEN Rejected
     ELSE IF chosen.found /\ hasUsage(chosen.entry)
          THEN Settled(contextLengthOf(chosen.entry.message.usage))
          ELSE Settled(0)

(***************************************************************************)
(* Display path: statusline.ts:162-191 (display/path.ts:19-48)             *)
(***************************************************************************)
StartsWith(s, prefix) ==
  Len(prefix) <= Len(s) /\ SubSeq(s, 1, Len(prefix)) = prefix

\* position of the first occurrence of pattern in s, 0 when there is none
IndexOfText(s, pattern) ==
  LET hits == {i \in 1..(Len(s) - Len(pattern) + 1) :
                 SubSeq(s, i, i + Len(pattern) - 1) = pattern}
  IN IF hits = {} THEN 0 ELSE CHOOSE i \in hits : \A j \in hits : i <= j

\* s.replace(pattern, ""): the first occurrence only
RemoveFirst(s, pattern) ==
  LET at == IndexOfText(s, pattern)
  IN IF at = 0 THEN s
     ELSE SubSeq(s, 1, at - 1) \o SubSeq(s, at + Len(pattern), Len(s))

\* s.replace(/^\//, "")
StripLeadingSlash(s) == IF s # <<>> /\ Head(s) = "/" THEN Tail(s) ELSE s

RECURSIVE StripTrailingSlashes(_)
StripTrailingSlashes(s) ==
  IF Len(s) > 1 /\ s[Len(s)] = "/" THEN StripTrailingSlashes(SubSeq(s, 1, Len(s) - 1)) ELSE s

\* path.basename
basename(p) ==
  LET segments == Split(StripTrailingSlashes(p), "/")
  IN segments[Len(segments)]

RECURSIVE Join(_, _)
Join(segments, sep) ==
  IF segments = <<>> THEN <<>>
  ELSE IF Len(segments) = 1 THEN segments[1]
  ELSE segments[1] \o sep \o Join(Tail(segments), sep)

\* path.split("/").slice(-2).join("/")
lastTwoSegments(p) ==
  LET segments == Split(p, "/")
      n == Len(segments)
  IN Join(SubSeq(segments, IF n > 2 THEN n - 1 ELSE 1, n), <<"/">>)

ProcessCwd == <<"/", "o", "/", "p">>

\* a variant that omits the root's base name
gitPathOfRelativeOnly(path, probe) ==
  IF ~probe.ok \/ Trim(probe.out) = <<>> THEN <<>>
  ELSE LET repoRoot == Trim(probe.out)
           stripped == StripLeadingSlash(RemoveFirst(path, repoRoot))
       IN IF stripped = <<>> \/ stripped = <<".">>
          THEN basename(repoRoot)
          ELSE stripped

\* statusline.ts:170-183: the repository form, empty when there is none
gitPathOf(path, probe) ==
  IF ~probe.ok \/ Trim(probe.out) = <<>> THEN <<>>
  ELSE LET repoRoot == Trim(probe.out)
           stripped == StripLeadingSlash(RemoveFirst(path, repoRoot))
       IN IF stripped = <<>> \/ stripped = <<".">>
          THEN basename(repoRoot)
          ELSE basename(repoRoot) \o <<"/">> \o stripped

\* statusline.ts:162-191
getDisplayPath(workspace, cwd, home, probe) ==
  LET path == IF workspace # <<>> THEN workspace
              ELSE IF cwd # <<>> THEN cwd ELSE ProcessCwd
      gitPath == gitPathOf(path, probe)
  IN IF path = <<>> THEN <<>>
     ELSE IF gitPath # <<>> THEN gitPath
     ELSE IF StartsWith(path, home)
          THEN (IF RemoveFirst(path, home) # <<>> THEN RemoveFirst(path, home) ELSE <<"~">>)
          ELSE lastTwoSegments(path)

(***************************************************************************)
(* The status line run: main() of statusline.ts, from readInput on         *)
(***************************************************************************)
\* statusline.ts:137-138: input.replace(/^#.*/gm, "") empties every line that
\* begins with "#"; safeJsonParse gives {} for text that is not JSON
parseInput(text) ==
  LET stripped == [i \in 1..Len(text.head) |->
                     IF text.head[i] # <<>> /\ Head(text.head[i]) = "#"
                     THEN <<>> ELSE text.head[i]]
  IN IF text.kind = "object" /\ \A i \in 1..Len(stripped) : Trim(stripped[i]) = <<>>
     THEN text.fields ELSE <<>>

\* statusline.ts:66-79, 293-313: formatters.model, .style and .cost read a
\* property of their argument, which throws when the field is absent
buildStatusLineThrows(d) ==
  \/ "model" \notin DOMAIN d
  \/ "output_style" \notin DOMAIN d
  \/ "cost" \notin DOMAIN d

\* formatters.model: model.display_name || "Claude"
formatModel(model) ==
  IF "display_name" \in DOMAIN model /\ model.display_name # ""
  THEN model.display_name ELSE "Claude"

\* formatters.cost: shown only when total_cost_usd > 0
formatCost(cost) ==
  IF "total_cost_usd" \in DOMAIN cost /\ cost.total_cost_usd > 0
  THEN cost.total_cost_usd ELSE 0

Lookups == {"path", "count", "tokens"}

\* statusline.ts:359-360: the input is read and parsed, enrichData starts
ReadInput ==
  /\ slPc = "start"
  /\ inputData' = parseInput(input)
  /\ slPc' = "enrich"
  /\ UNCHANGED input
  /\ UNCHANGED <<transcriptPath, fsTranscript, workspaceDir, dataCwd, homeDir, gitProbe,
                 settled, displayPath, msgCount, tokenMetrics, mostRecent, stdout>>
  /\ UNCHANGED <<launcherVars, modeVars, peerVars>>

\* statusline.ts:339
GetDisplayPath ==
  /\ slPc = "enrich"
  /\ "path" \notin settled
  /\ displayPath' = getDisplayPath(workspaceDir, dataCwd, homeDir, gitProbe)
  /\ settled' = settled \cup {"path"}
  /\ UNCHANGED <<slPc, transcriptPath, fsTranscript, workspaceDir, dataCwd, homeDir,
                 gitProbe, msgCount, tokenMetrics, mostRecent, stdout>>
  /\ UNCHANGED <<launcherVars, modeVars, peerVars, inputVars>>

\* statusline.ts:340
CountUserMessages ==
  /\ slPc = "enrich"
  /\ "count" \notin settled
  /\ msgCount' = countUserMessages(transcriptPath, fsTranscript)
  /\ settled' = settled \cup {"count"}
  /\ UNCHANGED <<slPc, transcriptPath, fsTranscript, workspaceDir, dataCwd, homeDir,
                 gitProbe, displayPath, tokenMetrics, mostRecent, stdout>>
  /\ UNCHANGED <<launcherVars, modeVars, peerVars, inputVars>>

\* statusline.ts:341
GetTokenMetrics ==
  /\ slPc = "enrich"
  /\ "tokens" \notin settled
  /\ tokenMetrics' = getTokenMetrics(transcriptPath, fsTranscript)
  /\ LET chosen == selectMostRecent(transcriptPath, fsTranscript)
     IN mostRecent' = [found |-> chosen.found, entry |-> chosen.entry]
  /\ settled' = settled \cup {"tokens"}
  /\ UNCHANGED <<slPc, transcriptPath, fsTranscript, workspaceDir, dataCwd, homeDir,
                 gitProbe, displayPath, msgCount, stdout>>
  /\ UNCHANGED <<launcherVars, modeVars, peerVars, inputVars>>

\* statusline.ts:343, 361-362: all lookups settled, the line is built and written
BuildStatusLine ==
  /\ slPc = "enrich"
  /\ settled = Lookups
  /\ ~msgCount.rejected
  /\ ~tokenMetrics.rejected
  /\ ~buildStatusLineThrows(inputData)
  /\ stdout' = <<[cwd |-> displayPath, msgCount |-> msgCount.value,
                  contextLength |-> tokenMetrics.value,
                  model |-> formatModel(inputData.model),
                  cost |-> formatCost(inputData.cost)]>>
  /\ slPc' = "written"
  /\ UNCHANGED <<transcriptPath, fsTranscript, workspaceDir, dataCwd, homeDir, gitProbe,
                 settled, displayPath, msgCount, tokenMetrics, mostRecent>>
  /\ UNCHANGED <<launcherVars, modeVars, peerVars, inputVars>>

\* statusline.ts:364: main().catch(die): the input cannot be read, or a lookup rejected
Die ==
  /\ \/ slPc = "start"
     \/ /\ slPc = "enrich"
        /\ \/ "count" \in settled /\ msgCount.rejected
           \/ "tokens" \in settled /\ tokenMetrics.rejected
           \/ settled = Lookups /\ buildStatusLineThrows(inputData)
  /\ slPc' = "died"
  /\ UNCHANGED <<transcriptPath, fsTranscript, workspaceDir, dataCwd, homeDir, gitProbe,
                 settled, displayPath, msgCount, tokenMetrics, mostRecent, stdout>>
  /\ UNCHANGED <<launcherVars, modeVars, peerVars, inputVars>>

StatusNext ==
  \/ ReadInput
  \/ GetDisplayPath
  \/ CountUserMessages
  \/ GetTokenMetrics
  \/ BuildStatusLine
  \/ Die

\* no launcher run
LauncherIdle ==
  /\ pc = "idle"
  /\ argv = <<>>
  /\ procEnv = <<>>
  /\ args = <<>>
  /\ isGlmMode = FALSE
  /\ fsGlobal = AbsentFile
  /\ fsClaude = AbsentFile
  /\ fsMcp = AbsentFile
  /\ srcExists = FALSE
  /\ targetExists = FALSE
  /\ manifestExists = FALSE
  /\ merged = EmptyObject
  /\ mcpServers = <<>>
  /\ claudeArgs = <<>>
  /\ childEnv = <<>>
  /\ child = "none"
  /\ childCode = -1
  /\ exitStatus = -1
  /\ stderr = <<>>
  /\ run = 1
  /\ isMiniMaxMode = FALSE
  /\ isChutesMode = FALSE
  /\ chutesModelArg = ""
  /\ PeerIdle

StatusInit(paths, files, workspaces, cwds, homes) ==
  /\ LauncherIdle
  /\ slPc = "start"
  /\ transcriptPath \in paths
  /\ fsTranscript \in files
  /\ workspaceDir \in workspaces
  /\ dataCwd \in cwds
  /\ homeDir \in homes
  /\ input = FullInput
  /\ inputData = <<>>
  /\ settled = {}
  /\ displayPath = <<>>
  /\ msgCount = Pending
  /\ tokenMetrics = Pending
  /\ mostRecent = NoEntry
  /\ stdout = <<>>

(***************************************************************************)
(* Transcripts                                                             *)
(***************************************************************************)
Contents ==
  {Str(<<"hello">>),
   Str(<<"<command-name>", "foo", "</command-name>">>),
   Str(<<"<local-command-stdout>", "ok">>),
   Str(<<"see", "Caveat: The messages below", "were generated">>),
   Blocks(<<"hello">>),
   Blocks(<<"<command-name>", "foo", "</command-name>">>),
   ObjectContent}

ClassifierEntries ==
  {t @@ r @@ m @@ c :
     t \in Optional("type", {"user", "assistant"}),
     r \in Optional("toolUseResult", {"{}", "\"\"", "false"}),
     m \in Optional("isMeta", {"true", "false"}),
     c \in Optional("message", {<<>>} \cup {[content |-> x] : x \in Contents})}

Usages ==
  {<<>>,
   [input_tokens |-> 1, output_tokens |-> 64],
   [input_tokens |-> 2, cache_read_input_tokens |-> 4,
    cache_creation_input_tokens |-> 8, output_tokens |-> 128]}

UsageEntries ==
  {[type |-> "assistant"] @@ c @@ t @@ m :
     c \in Optional("isSidechain", {"true", "false", "\"true\""}),
     t \in Optional("timestamp", 1..MaxTime),
     m \in Optional("message", {[usage |-> u] : u \in Usages})}

UsageEntry(sidechain, time, tokens) ==
  [type |-> "assistant", isSidechain |-> sidechain, timestamp |-> time,
   message |-> [usage |-> [input_tokens |-> tokens, output_tokens |-> 64]]]

FewLines ==
  {BlankLine, GarbageLine, BraceGarbageLine, NullLine,
   ObjectLine([type |-> "user", message |-> [content |-> Str(<<"hello">>)]], FALSE),
   ObjectLine([type |-> "user", toolUseResult |-> "{}",
               message |-> [content |-> Str(<<"hello">>)]], FALSE),
   ObjectLine(UsageEntry("false", 1, 1), FALSE),
   ObjectLine(UsageEntry("false", MaxTime, 2), FALSE),
   ObjectLine(UsageEntry("true", MaxTime, 4), FALSE),
   ObjectLine(UsageEntry("false", MaxTime, 8), FALSE)}

Transcripts ==
  {<<ObjectLine(e, FALSE)>> : e \in ClassifierEntries}
    \cup {<<ObjectLine(e, i)>> : e \in UsageEntries, i \in BOOLEAN}
    \cup {<<ScalarLine>>}
    \cup SeqsUpTo(FewLines, MaxLines)

HomeText == <<"/", "h", "/", "u">>

TranscriptInit ==
  /\ StatusInit({"", "/t.jsonl"},
                {NoTranscript, UnreadableTranscript}
                  \cup {TranscriptFile(lines) : lines \in Transcripts},
                {HomeText \o <<"/", "d">>}, {<<>>}, {HomeText})
  /\ transcriptPath = "" => fsTranscript = NoTranscript
  /\ gitProbe = NoProbe

SpecStatus == TranscriptInit /\ [][StatusNext]_vars

IsSidechain(entry) == "isSidechain" \in DOMAIN entry /\ entry.isSidechain = "true"

FileLines == IF fsTranscript.exists /\ fsTranscript.readable THEN fsTranscript.lines ELSE <<>>

UsageCarrying(line) == line.kind = "object" /\ hasUsage(line.entry)

\* C7: the entry taken as most recent is never a side-chain entry, also when
\* a side-chain entry has the latest timestamp of the file; when every
\* usage-carrying entry is a side-chain entry the context length is 0.
C7_NeverSidechain ==
  "tokens" \in settled =>
    /\ mostRecent.found => ~IsSidechain(mostRecent.entry)
    /\ (\A i \in 1..Len(FileLines) :
          UsageCarrying(FileLines[i]) => IsSidechain(FileLines[i].entry)) =>
         (~mostRecent.found /\ tokenMetrics = Settled(0))

C7_Witness ==
  /\ "tokens" \in settled
  /\ mostRecent.found
  /\ \E i \in 1..Len(FileLines) :
       /\ UsageCarrying(FileLines[i])
       /\ IsSidechain(FileLines[i].entry)
       /\ "timestamp" \in DOMAIN FileLines[i].entry
       /\ FileLines[i].entry.timestamp > mostRecent.entry.timestamp
  /\ tokenMetrics = Settled(1)

NoValidJsonLine ==
  \/ transcriptPath = ""
  \/ ~fsTranscript.exists
  \/ ~fsTranscript.readable
  \/ \A i \in 1..Len(fsTranscript.lines) :
       fsTranscript.lines[i].kind \in {"blank", "garbage", "bracegarbage"}

\* C8: with no transcript path, a missing or unreadable file, or a file without
\* a valid JSON line, the turn count is 0 and the context length is 0, neither
\* lookup rejects, and the run writes these values instead of dying.
C8_EmptyDefaults ==
  NoValidJsonLine =>
    /\ "count" \in settled => msgCount = Settled(0)
    /\ "tokens" \in settled => tokenMetrics = Settled(0)
    /\ settled # {} => slPc # "died"
    /\ slPc = "written" => (stdout[1].msgCount = 0 /\ stdout[1].contextLength = 0)

C8_Witness ==
  /\ slPc = "written"
  /\ transcriptPath # ""
  /\ fsTranscript.exists
  /\ fsTranscript.readable
  /\ Len(fsTranscript.lines) = 3
  /\ fsTranscript.lines[1] = GarbageLine
  /\ fsTranscript.lines[2] = BlankLine
  /\ fsTranscript.lines[3] = BraceGarbageLine
  /\ stdout[1].msgCount = 0
  /\ stdout[1].contextLength = 0

\* the classification the claim gives an entry whose content is absent or text
GenuineTurn(entry) ==
  /\ "type" \in DOMAIN entry
  /\ entry.type = "user"
  /\ "toolUseResult" \notin DOMAIN entry
  /\ ~("isMeta" \in DOMAIN entry /\ Truthy(entry.isMeta))
  /\ \A pattern \in Markers :
       \A i \in 1..Len(contentOf(entry).text) : contentOf(entry).text[i] # pattern

TextContent(line) == line.kind = "object" /\ contentOf(line.entry).kind = "string"

\* C9: a line that decodes as an object counts as a turn exactly when its type
\* is "user", it has no toolUseResult field (whatever the value), isMeta is not
\* truthy and its content contains none of the three markers; the turn count
\* is the number of such lines.
C9_GenuineIff ==
  ("count" \in settled /\ \A i \in 1..Len(FileLines) :
                            NotBlank(FileLines[i]) => TextContent(FileLines[i])) =>
    msgCount = Settled(Cardinality({i \in 1..Len(FileLines) :
                                      /\ NotBlank(FileLines[i])
                                      /\ GenuineTurn(FileLines[i].entry)}))

(***************************************************************************)
(* Directories                                                             *)
(***************************************************************************)
SegmentNames == {<<"h">>, <<"u">>, <<"d">>, <<"u", "x">>}

RECURSIVE AbsPath(_)
AbsPath(segments) ==
  IF segments = <<>> THEN <<>>
  ELSE <<"/">> \o Head(segments) \o AbsPath(Tail(segments))

Directories == {AbsPath(segments) : segments \in SeqsUpTo(SegmentNames, MaxDepth) \ {<<>>}}

Homes == {AbsPath(<<<<"h">>, <<"u">>>>), AbsPath(<<<<"h">>>>)}

\* the directory itself or one of its ancestors
Ancestors(path) ==
  {d \in Directories : d = path \/ StartsWith(path, d \o <<"/">>)}

\* the probe fails, prints nothing, or prints the root followed by a newline
Probes(path) ==
  {NoProbe, [ok |-> TRUE, out |-> <<>>]}
    \cup {[ok |-> TRUE, out |-> root \o <<"\n">>] : root \in Ancestors(path)}

PathInit ==
  /\ StatusInit({""}, {NoTranscript}, Directories \cup {<<>>}, Directories \cup {<<>>}, Homes)
  /\ workspaceDir = <<>> \/ dataCwd = <<>>
  /\ gitProbe \in Probes(IF workspaceDir # <<>> THEN workspaceDir
                         ELSE IF dataCwd # <<>> THEN dataCwd ELSE ProcessCwd)

SpecPath == PathInit /\ [][StatusNext]_vars

ChosenPath ==
  IF workspaceDir # <<>> THEN workspaceDir
  ELSE IF dataCwd # <<>> THEN dataCwd ELSE ProcessCwd

NoRootFound == ~gitProbe.ok \/ gitProbe.out = <<>>

UnderHome == ChosenPath = homeDir \/ StartsWith(ChosenPath, homeDir \o <<"/">>)

\* C10: with no version-control root and the path under the home directory,
\* the display path is "~" followed by the rest of the path after the home
\* directory, and "~" alone for the home directory itself.
C10_HomeRelative ==
  ("path" \in settled /\ NoRootFound /\ UnderHome) =>
    displayPath = <<"~">> \o SubSeq(ChosenPath, Len(homeDir) + 1, Len(ChosenPath))

RootFound == gitProbe.ok /\ Trim(gitProbe.out) # <<>>

Root == Trim(gitProbe.out)

\* the text after the last "/" of a directory name
RECURSIVE LastName(_)
LastName(dir) ==
  IF dir = <<>> \/ dir[Len(dir)] = "/" THEN <<>>
  ELSE LastName(SubSeq(dir, 1, Len(dir) - 1)) \o <<dir[Len(dir)]>>

\* C11: when the probe reports a root, the display path is the root's base
\* name for the root itself and base name, "/", path below the root otherwise,
\* also when the path lies under the home directory.
C11_RepositoryForm ==
  ("path" \in settled /\ RootFound) =>
    displayPath = IF ChosenPath = Root THEN LastName(Root)
                  ELSE LastName(Root) \o <<"/">>
                         \o SubSeq(ChosenPath, Len(Root) + 2, Len(ChosenPath))

C11_Witness ==
  /\ "path" \in settled
  /\ RootFound
  /\ UnderHome
  /\ ChosenPath # Root
  /\ StartsWith(Root, homeDir \o <<"/">>)
  /\ displayPath = LastName(Root) \o <<"/">>
                     \o SubSeq(ChosenPath, Len(Root) + 2, Len(ChosenPath))

\* an entry with a usage block and a timestamp that is not a side-chain entry
Qualifying(line) ==
  /\ UsageCarrying(line)
  /\ ~IsSidechain(line.entry)
  /\ "timestamp" \in DOMAIN line.entry

QualifyingAt == {i \in 1..Len(FileLines) : Qualifying(FileLines[i])}

TimeAt(i) == FileLines[i].entry.timestamp

\* last position after an ascending sort by timestamp that keeps file order among ties
LatestAt ==
  CHOOSE i \in QualifyingAt :
    \A j \in QualifyingAt : TimeAt(j) < TimeAt(i) \/ (TimeAt(j) = TimeAt(i) /\ j <= i)

\* input, cache-read and cache-creation counters, a missing one counting as 0
StandingContext(usage) ==
  (IF "input_tokens" \in DOMAIN usage THEN usage.input_tokens ELSE 0)
    + (IF "cache_read_input_tokens" \in DOMAIN usage THEN usage.cache_read_input_tokens ELSE 0)
    + (IF "cache_creation_input_tokens" \in DOMAIN usage
       THEN usage.cache_creation_input_tokens ELSE 0)

\* C12: the context length is the sum of the input, cache-read and
\* cache-creation counters of the qualifying entry that is last after an
\* ascending sort by timestamp, and 0 when no entry of the transcript
\* qualifies; output counters play no part.
C12_ContextLength ==
  "tokens" \in settled =>
    tokenMetrics = Settled(IF transcriptPath = "" \/ QualifyingAt = {} THEN 0
                           ELSE StandingContext(FileLines[LatestAt].entry.message.usage))

NoIndentedLine ==
  \A i \in 1..Len(FileLines) : FileLines[i].kind = "object" => ~FileLines[i].indent

TiedLatest ==
  {i \in QualifyingAt : \A j \in QualifyingAt : TimeAt(j) <= TimeAt(i)}

DecidesEntry(i) ==
  /\ serverEnabled(DeclaredArray[i])
  /\ \A j \in (i + 1)..Len(DeclaredArray) :
       serverEnabled(DeclaredArray[j]) => DeclaredArray[j].name # DeclaredArray[i].name

CommandAndUrl(server) ==
  /\ "command" \in DOMAIN server /\ server.command # <<>>
  /\ "url" \in DOMAIN server /\ server.url # ""

\* C14: an enabled descriptor that carries both a non-empty command and a
\* non-empty url yields an entry of type "stdio" with command and args; the
\* url does not decide the type.
C14_CommandPrecedence ==
  pc = "running" =>
    \A i \in 1..Len(DeclaredArray) :
      (DecidesEntry(i) /\ CommandAndUrl(DeclaredArray[i])) =>
        /\ DeclaredArray[i].name \in DOMAIN mcpServers
        /\ mcpServers[DeclaredArray[i].name].type = "stdio"
        /\ {"command", "args"} \subseteq DOMAIN mcpServers[DeclaredArray[i].name]

(***************************************************************************)
(* setupEnv on its own: every combination of mode flags                    *)
(***************************************************************************)
\* process environments: each credential unset, empty or set to its own value,
\* a generic token and a request timeout of the operator's own
ProcessEnvironments ==
  {z @@ m @@ c @@ a @@ t :
     z \in Optional("ZAI_API_KEY", {<<>>, <<"z">>}),
     m \in Optional("MINIMAX_API_KEY", {<<>>, <<"m">>}),
     c \in Optional("CHUTES_API_KEY", {<<>>, <<"c">>}),
     a \in Optional("ANTHROPIC_AUTH_TOKEN", {<<"a">>}),
     t \in Optional("API_TIMEOUT_MS", {"100"})}

ChutesModels == {"", "custom-model"}

EnvInit ==
  /\ pc = "env"
  /\ procEnv \in ProcessEnvironments
  /\ isGlmMode \in BOOLEAN
  /\ isMiniMaxMode \in BOOLEAN
  /\ isChutesMode \in BOOLEAN
  /\ chutesModelArg \in ChutesModels
  /\ argv = <<>>
  /\ args = <<>>
  /\ fsGlobal = AbsentFile
  /\ fsClaude = AbsentFile
  /\ fsMcp = AbsentFile
  /\ srcExists = FALSE
  /\ targetExists = FALSE
  /\ manifestExists = FALSE
  /\ merged = EmptyObject
  /\ mcpServers = <<>>
  /\ claudeArgs = <<>>
  /\ childEnv = <<>>
  /\ child = "none"
  /\ childCode = -1
  /\ exitStatus = -1
  /\ stderr = <<>>
  /\ run = 1
  /\ PeerIdle
  /\ StatusIdle

\* spawn.ts:142-165
SetupEnv ==
  /\ pc = "env"
  /\ childEnv' = setupEnv(procEnv, isGlmMode, isMiniMaxMode, isChutesMode, chutesModelArg)
  /\ pc' = "envdone"
  /\ UNCHANGED <<argv, procEnv, args, isGlmMode, fsGlobal, fsClaude, fsMcp, srcExists,
                 targetExists, manifestExists, merged, mcpServers, claudeArgs, child,
                 childCode, exitStatus, stderr, run,
                 modeVars, peerVars, inputVars, statusVars>>

EnvNext == SetupEnv

SpecEnv == EnvInit /\ [][EnvNext]_vars

ProviderNames == {"glm", "minimax", "chutes"}

Selected(p) ==
  CASE p = "glm" -> isGlmMode
    [] p = "minimax" -> isMiniMaxMode
    [] p = "chutes" -> isChutesMode

CredentialOf(p) ==
  CASE p = "glm" -> "ZAI_API_KEY"
    [] p = "minimax" -> "MINIMAX_API_KEY"
    [] p = "chutes" -> "CHUTES_API_KEY"

EnvironmentOf(p) ==
  CASE p = "glm" -> glmEnv
    [] p = "minimax" -> minimaxEnv
    [] p = "chutes" -> IF chutesModelArg # "" THEN createChutesEnvWithModel(chutesModelArg)
                       ELSE chutesEnv

\* the final environment holds the provider's base URL, timeout and model tiers
EnvironmentFrom(p) ==
  \A k \in DOMAIN EnvironmentOf(p) : k \in DOMAIN childEnv /\ childEnv[k] = EnvironmentOf(p)[k]

\* the generic token of the final environment is the provider's credential
TokenFrom(p) ==
  /\ Selected(p)
  /\ CredentialOf(p) \in DOMAIN procEnv
  /\ procEnv[CredentialOf(p)] # <<>>
  /\ "ANTHROPIC_AUTH_TOKEN" \in DOMAIN childEnv
  /\ childEnv["ANTHROPIC_AUTH_TOKEN"] = procEnv[CredentialOf(p)]

\* C15: whatever mode flags setupEnv receives, the final environment holds
\* the provider environment and the remapped credential of at most one
\* provider, never parts of two.
C15_AtMostOneProvider ==
  pc = "envdone" =>
    Cardinality({p \in ProviderNames : EnvironmentFrom(p) \/ TokenFrom(p)}) <= 1

SelectedProviders == {p \in ProviderNames : Selected(p)}

TheProvider == CHOOSE p \in ProviderNames : Selected(p)

CredentialSet(p) == CredentialOf(p) \in DOMAIN procEnv /\ procEnv[CredentialOf(p)] # <<>>

\* the value the three layers give a key: the remap, else the provider
\* environment, else the process environment
Layered(k) ==
  IF SelectedProviders # {} /\ k = "ANTHROPIC_AUTH_TOKEN" /\ CredentialSet(TheProvider)
  THEN procEnv[CredentialOf(TheProvider)]
  ELSE IF SelectedProviders # {} /\ k \in DOMAIN EnvironmentOf(TheProvider)
  THEN EnvironmentOf(TheProvider)[k]
  ELSE procEnv[k]

LayeredKeys ==
  (DOMAIN procEnv)
    \cup (IF SelectedProviders # {} THEN DOMAIN EnvironmentOf(TheProvider) ELSE {})
    \cup (IF SelectedProviders # {} /\ CredentialSet(TheProvider)
          THEN {"ANTHROPIC_AUTH_TOKEN"} ELSE {})

Enters(q) == pc # q /\ pc' = q

\* C17: a launcher run validates the credential (when --glm is given), then
\* merges the configuration, then builds the manifest and spawns: each
\* position is entered from the one before it, the base file is written only
\* by the merge and only before the spawn, and the subprocess starts only
\* after the merge has written, skipped or been abandoned.
C17_StepOrder ==
  [][/\ Enters("sync") => (pc = "start" /\ (isGlmMode' => ~validateAnthropicToken(procEnv)))
     /\ Enters("merge") => pc = "sync"
     /\ Enters("write") => (pc = "merge" /\ fileExists(fsClaude))
     /\ Enters("symlinks") =>
          \/ pc = "merge" /\ ~fileExists(fsClaude) /\ fsGlobal' = fsGlobal
          \/ pc = "write" /\ fsGlobal' = FileWith(JSONStringify(merged))
          \/ pc = "write" /\ fsGlobal' = fsGlobal /\ stderr' # stderr
     /\ Enters("spawn") => pc = "symlinks"
     /\ (child = "none" /\ child' # "none") =>
          /\ pc = "spawn"
          /\ mcpServers' = buildMcpServers(readMcpArray(fsMcp))
          /\ claudeArgs' = LitArgs(args) \o mcpFlags(mcpServers')
     /\ fsGlobal' # fsGlobal => (pc = "write" /\ child = "none")
     /\ pc \in {"start", "sync", "merge", "write", "symlinks", "spawn"} => child = "none"
    ]_vars

C17_Witness ==
  /\ pc = "running"
  /\ child = "running"
  /\ isGlmMode
  /\ fileExists(fsClaude)
  /\ fsGlobal = ConfigFile(ExampleMerged)
  /\ DOMAIN mcpServers # {}

ReadOrParseFails(file) ==
  file.exists /\ (~file.readable \/ file.text.kind = "garbage")

MergeAbandoned ==
  /\ fsGlobal' = fsGlobal
  /\ stderr' = Append(stderr, "Config merge failed")
  /\ pc' = "symlinks"

\* C19: a merge in which the base or the override file cannot be read or
\* parsed, or in which the write fails, is abandoned: the base file keeps
\* its content, a warning is logged and the launch goes on.
C19_FailedMergeAbandoned ==
  [][(pc = "write" /\ pc' # "write") =>
       /\ (ReadOrParseFails(fsGlobal) \/ ReadOrParseFails(fsClaude)) => MergeAbandoned
       /\ fsGlobal' # FileWith(JSONStringify(merged)) => MergeAbandoned
    ]_vars

\* C20: without an override file mergeConfigs does nothing: the base file is
\* neither written nor created, nothing is logged, no error is raised, and
\* the launch goes on to the next step.
C20_NoOverrideNoOp ==
  [][(pc = "merge" /\ ~fileExists(fsClaude) /\ pc' # "merge") =>
       /\ fsGlobal' = fsGlobal
       /\ fsClaude' = fsClaude
       /\ merged' = merged
       /\ stderr' = stderr
       /\ exitStatus' = -1
       /\ pc' = "symlinks"
    ]_vars

C20_Witness ==
  /\ pc = "running"
  /\ ~fileExists(fsClaude)
  /\ fsGlobal = FileWith(GarbageText)
  /\ stderr = <<>>


(***************************************************************************)
(* The input of the status line run                                        *)
(***************************************************************************)

CommentLine == <<"#", "c">>

\* the head lines that parseInput's replace turns into blank lines
Heads == {<<>>, <<CommentLine>>, <<<<>>, CommentLine>>, <<<<"x">>>>}

\* objects with any subset of model, output_style, cost and version
FieldSubsets == {Restrict(FullData, keys) : keys \in SUBSET DOMAIN FullData}

Inputs ==
  {ObjectInput(head, fields) : head \in Heads, fields \in FieldSubsets}
    \cup {GarbageInput}

InputInit ==
  /\ LauncherIdle
  /\ slPc = "start"
  /\ transcriptPath \in {"", "/t.jsonl"}
  /\ fsTranscript \in {NoTranscript,
                       TranscriptFile(<<ObjectLine(UsageEntry("false", 1, 1), FALSE)>>)}
  /\ transcriptPath = "" => fsTranscript = NoTranscript
  /\ workspaceDir = HomeText \o <<"/", "d">>
  /\ dataCwd = <<>>
  /\ homeDir = HomeText
  /\ gitProbe = NoProbe
  /\ input \in Inputs
  /\ inputData = <<>>
  /\ settled = {}
  /\ displayPath = <<>>
  /\ msgCount = Pending
  /\ tokenMetrics = Pending
  /\ mostRecent = NoEntry
  /\ stdout = <<>>

SpecInput == InputInit /\ [][StatusNext]_vars

\* the input text is a JSON object, possibly preceded by "#" comment lines
IsObjectInput(text) ==
  /\ text.kind = "object"
  /\ \A i \in 1..Len(text.head) :
       \/ Trim(text.head[i]) = <<>>
       \/ Head(text.head[i]) = "#"

\* C21: a run whose input is a JSON object (any subset of the fields absent,
\* "#" comment lines allowed) and whose lookups did not reject never takes
\* the error exit once the input has been read: it goes on to write its line
C21_MissingFieldsStillWrite ==
  [][(/\ slPc = "enrich"
      /\ IsObjectInput(input)
      /\ ~msgCount.rejected
      /\ ~tokenMetrics.rejected) => slPc' # "died"]_vars


(***************************************************************************)
(* A refresh whose version-control probe may never answer                  *)
(***************************************************************************)

\* statusline.ts:333-344: enrichData awaits Promise.all of the three lookups
\* and sets no timer.  The file reads and the steps of main run whenever they
\* can; the display path waits for a subprocess (git rev-parse), which may
\* never exit, so GetDisplayPath gets no fairness.
StallFairness ==
  /\ WF_vars(ReadInput)
  /\ WF_vars(CountUserMessages)
  /\ WF_vars(GetTokenMetrics)
  /\ WF_vars(BuildStatusLine)
  /\ WF_vars(Die)

SpecStall == InputInit /\ [][StatusNext]_vars /\ StallFairness

\* C22: every refresh eventually ends, by writing its line or by the error
\* exit, even when the display-path lookup never completes
C22_EmittedDespiteStall == <>(slPc \in {"written", "died"})


(***************************************************************************)
(* Malformed transcript lines                                              *)
(***************************************************************************)

WellFormed(line) == ~ParseThrows(line)

\* the transcript with every line that is not JSON text deleted
WithoutMalformed(file) == [file EXCEPT !.lines = SelectSeq(@, WellFormed)]

HasMalformed == \E i \in 1..Len(FileLines) : ParseThrows(FileLines[i])

\* C23: the turn count and the context length of a transcript are those of
\* the same transcript with its malformed lines deleted, and neither lookup
\* rejects, wherever the malformed lines stand
C23_MalformedSkipped ==
  /\ "count" \in settled =>
       /\ ~msgCount.rejected
       /\ msgCount = countUserMessages(transcriptPath, WithoutMalformed(fsTranscript))
  /\ "tokens" \in settled =>
       /\ ~tokenMetrics.rejected
       /\ tokenMetrics = getTokenMetrics(transcriptPath, WithoutMalformed(fsTranscript))

\* a brace-opened malformed line stands between a genuine turn and a usage
\* entry, and both are still counted
C23_Witness ==
  /\ slPc = "written"
  /\ Len(FileLines) = 3
  /\ FileLines[2] = BraceGarbageLine
  /\ stdout[1].msgCount = 1
  /\ stdout[1].contextLength > 0


(***************************************************************************)
(* Other processes on the same machine: a second launcher invocation and   *)
(* the assistant that an earlier launch left running.  They share the base *)
(* file (paths.global) and the instructions target (paths.instructionsTarget); *)
(* the symlink manifest is per process and is left out.                    *)
(***************************************************************************)

\* index.ts:33-45 in the second invocation: its arguments and environment are
\* its own, so its credential validation may pass or throw
PeerStart ==
  /\ peerPc = "idle"
  /\ \E throws \in BOOLEAN : peerPc' = IF throws THEN "catch" ELSE "sync"
  /\ UNCHANGED <<launcherVars, modeVars, peerMerged, assistantWrote, baseAtStart,
                 inputVars, statusVars>>

\* instructions.ts:12-17 in the second invocation
PeerSyncInstructions ==
  /\ peerPc = "sync"
  /\ targetExists' \in (IF srcExists THEN {TRUE, targetExists} ELSE {targetExists})
  /\ peerPc' = "merge"
  /\ UNCHANGED <<pc, argv, procEnv, args, isGlmMode, fsGlobal, fsClaude, fsMcp, srcExists,
                 manifestExists, merged, mcpServers, claudeArgs, childEnv,
                 child, childCode, exitStatus, stderr, run,
                 modeVars, peerMerged, assistantWrote, baseAtStart, inputVars, statusVars>>

\* merge.ts:14,25 in the second invocation
PeerMergeSkip ==
  /\ peerPc = "merge"
  /\ ~fileExists(fsClaude)
  /\ peerPc' = "running"
  /\ UNCHANGED <<launcherVars, modeVars, peerMerged, assistantWrote, baseAtStart,
                 inputVars, statusVars>>

\* merge.ts:14-19 in the second invocation
PeerMergeRead ==
  /\ peerPc = "merge"
  /\ fileExists(fsClaude)
  /\ peerMerged' = SpreadMerge(safeJsonRead(fsGlobal), safeJsonRead(fsClaude))
  /\ peerPc' = "write"
  /\ UNCHANGED <<launcherVars, modeVars, assistantWrote, baseAtStart,
                 inputVars, statusVars>>

\* merge.ts:20-24 in the second invocation: the write, or the warning of a
\* write that failed; then the rest of the launch up to the running subprocess
PeerMergeWrite ==
  /\ peerPc = "write"
  /\ fsGlobal' \in {FileWith(JSONStringify(peerMerged)), fsGlobal}
  /\ peerPc' = "running"
  /\ UNCHANGED <<pc, argv, procEnv, args, isGlmMode, fsClaude, fsMcp, srcExists,
                 targetExists, manifestExists, merged, mcpServers, claudeArgs, childEnv,
                 child, childCode, exitStatus, stderr, run,
                 modeVars, peerMerged, assistantWrote, baseAtStart, inputVars, statusVars>>

\* index.ts:52-54 in the second invocation: its subprocess exits and its
\* cleanup deletes the instructions target
PeerCleanup ==
  /\ peerPc = "running"
  /\ targetExists' \in safeDelete(targetExists)
  /\ peerPc' = "done"
  /\ UNCHANGED <<pc, argv, procEnv, args, isGlmMode, fsGlobal, fsClaude, fsMcp, srcExists,
                 manifestExists, merged, mcpServers, claudeArgs, childEnv,
                 child, childCode, exitStatus, stderr, run,
                 modeVars, peerMerged, assistantWrote, baseAtStart, inputVars, statusVars>>

\* index.ts:57 in the second invocation: validation threw, cleanup, die
PeerCatchAndDie ==
  /\ peerPc = "catch"
  /\ targetExists' \in safeDelete(targetExists)
  /\ peerPc' = "done"
  /\ UNCHANGED <<pc, argv, procEnv, args, isGlmMode, fsGlobal, fsClaude, fsMcp, srcExists,
                 manifestExists, merged, mcpServers, claudeArgs, childEnv,
                 child, childCode, exitStatus, stderr, run,
                 modeVars, peerMerged, assistantWrote, baseAtStart, inputVars, statusVars>>

AssistantKey == "s"

\* paths.ts:24: the base file is the assistant's own settings file; a running
\* assistant stores a key of its own in it, once
AssistantWrite ==
  /\ assistantWrote = ""
  /\ pc \notin {"idle", "done"}
  /\ fsGlobal' = ConfigFile((AssistantKey :> Num(1)) @@ safeJsonRead(fsGlobal).v)
  /\ assistantWrote' = pc
  /\ UNCHANGED <<pc, argv, procEnv, args, isGlmMode, fsClaude, fsMcp, srcExists,
                 targetExists, manifestExists, merged, mcpServers, claudeArgs, childEnv,
                 child, childCode, exitStatus, stderr, run,
                 modeVars, peerPc, peerMerged, baseAtStart, inputVars, statusVars>>

PeersInit ==
  /\ LauncherInit({<<>>}, {<<>>},
                  {AbsentFile, ConfigFile(ExampleBase), ConfigFile([b |-> Arr(<<1>>)])},
                  {AbsentFile, ConfigFile(ExampleOverride), ConfigFile([b |-> Arr(<<2>>)])},
                  {AbsentFile}, BOOLEAN)
  /\ StatusIdle

PeersNext ==
  \/ Next
  \/ PeerStart
  \/ PeerSyncInstructions
  \/ PeerMergeSkip
  \/ PeerMergeRead
  \/ PeerMergeWrite
  \/ PeerCleanup
  \/ PeerCatchAndDie
  \/ AssistantWrite

SpecPeers == PeersInit /\ [][PeersNext]_vars

MergeWarned == \E i \in 1..Len(stderr) : stderr[i] = "Config merge failed"

\* C24: nothing excludes another writer between the merge's read and its
\* write: when the assistant stored its key in the base file after the merge
\* read it and the merge then wrote, the key is gone from the base file
C24_LostUpdate ==
  (/\ pc = "symlinks"
   /\ assistantWrote = "write"
   /\ peerPc = "idle"
   /\ ~MergeWarned) =>
    /\ Parses(fsGlobal)
    /\ AssistantKey \notin DOMAIN ObjectOf(fsGlobal)
    /\ fsGlobal = FileWith(JSONStringify(merged))

\* the merge read {a:1,b:2}, the assistant then stored its key, and the
\* merge's write left {a:1,b:3,c:4}
C24_Witness ==
  /\ pc = "symlinks"
  /\ assistantWrote = "write"
  /\ peerPc = "idle"
  /\ stderr = <<>>
  /\ baseAtStart = ConfigFile(ExampleBase)
  /\ fsGlobal = ConfigFile(ExampleMerged)


(***************************************************************************)
(* Structured message content                                              *)
(***************************************************************************)

\* a user entry without toolUseResult, isMeta falsy, whose content is a list
\* of blocks one of which holds a synthetic marker as its text
MarkerInBlocks(line) ==
  /\ line.kind = "object"
  /\ "type" \in DOMAIN line.entry
  /\ line.entry.type = "user"
  /\ "toolUseResult" \notin DOMAIN line.entry
  /\ ~("isMeta" \in DOMAIN line.entry /\ Truthy(line.entry.isMeta))
  /\ contentOf(line.entry).kind = "blocks"
  /\ \E k \in 1..Len(contentOf(line.entry).text) : contentOf(line.entry).text[k] \in Markers

\* the same line with the text of the blocks given as one plain string
AsPlainString(line) ==
  IF MarkerInBlocks(line)
  THEN [line EXCEPT !.entry.message.content = Str(@.text)]
  ELSE line

PlainTranscript(file) ==
  [file EXCEPT !.lines = [k \in 1..Len(file.lines) |-> AsPlainString(file.lines[k])]]

\* C25: a marker inside a text block of structured content excludes the entry
\* from the turn count exactly as the same text given as a plain string does
C25_MarkerInBlocksExcluded ==
  "count" \in settled =>
    msgCount = countUserMessages(transcriptPath, PlainTranscript(fsTranscript))


(***************************************************************************)
(* Two launcher invocations merging at once                                *)
(***************************************************************************)

MergeDone == pc \in {"symlinks", "spawn", "running", "cleanup", "exit"}

PeerMergeDone == peerPc \in {"running", "done"}

PartialLine(entry) == [kind |-> "bracegarbage", indent |-> FALSE, entry |-> entry]

IsPartial(line) == line.kind = "bracegarbage" /\ line.entry # <<>>

AppendedEntries ==
  {[type |-> "user", message |-> [content |-> Str(<<"hello">>)]],
   [type |-> "user", toolUseResult |-> "{}", message |-> [content |-> Str(<<"hello">>)]],
   UsageEntry("false", 1, 1),
   UsageEntry("false", MaxTime, 2)}

AppendedLines == {ObjectLine(e, FALSE) : e \in AppendedEntries} \cup {GarbageLine}

LastIsPartial ==
  /\ fsTranscript.lines # <<>>
  /\ IsPartial(fsTranscript.lines[Len(fsTranscript.lines)])

\* the assistant appends one whole line to the transcript
AppendLine ==
  /\ fsTranscript.exists
  /\ Len(fsTranscript.lines) < MaxLines
  /\ ~LastIsPartial
  /\ \E line \in AppendedLines :
       fsTranscript' = [fsTranscript EXCEPT !.lines = Append(@, line)]
  /\ UNCHANGED <<slPc, transcriptPath, workspaceDir, dataCwd, homeDir, gitProbe,
                 settled, displayPath, msgCount, tokenMetrics, mostRecent, stdout>>
  /\ UNCHANGED <<launcherVars, modeVars, peerVars, inputVars>>

\* the assistant's write reaches the file in two pieces: first the beginning
\* of the line
AppendPartial ==
  /\ fsTranscript.exists
  /\ Len(fsTranscript.lines) < MaxLines
  /\ ~LastIsPartial
  /\ \E e \in AppendedEntries :
       fsTranscript' = [fsTranscript EXCEPT !.lines = Append(@, PartialLine(e))]
  /\ UNCHANGED <<slPc, transcriptPath, workspaceDir, dataCwd, homeDir, gitProbe,
                 settled, displayPath, msgCount, tokenMetrics, mostRecent, stdout>>
  /\ UNCHANGED <<launcherVars, modeVars, peerVars, inputVars>>

\* then the rest of the line
CompletePartial ==
  /\ LastIsPartial
  /\ LET n == Len(fsTranscript.lines)
     IN fsTranscript' =
          [fsTranscript EXCEPT !.lines[n] = ObjectLine(fsTranscript.lines[n].entry, FALSE)]
  /\ UNCHANGED <<slPc, transcriptPath, workspaceDir, dataCwd, homeDir, gitProbe,
                 settled, displayPath, msgCount, tokenMetrics, mostRecent, stdout>>
  /\ UNCHANGED <<launcherVars, modeVars, peerVars, inputVars>>

\* the host runs the status line command again: a new process, with the line
\* of the previous run still on display
Refresh ==
  /\ slPc \in {"written", "died"}
  /\ slPc' = "start"
  /\ inputData' = <<>>
  /\ settled' = {}
  /\ displayPath' = <<>>
  /\ msgCount' = Pending
  /\ tokenMetrics' = Pending
  /\ mostRecent' = NoEntry
  /\ UNCHANGED <<transcriptPath, fsTranscript, workspaceDir, dataCwd, homeDir, gitProbe,
                 stdout, input>>
  /\ UNCHANGED <<launcherVars, modeVars, peerVars>>

AppendInit ==
  /\ StatusInit({"/t.jsonl"}, {TranscriptFile(<<>>)},
                {HomeText \o <<"/", "d">>}, {<<>>}, {HomeText})
  /\ gitProbe = NoProbe

AppendNext ==
  \/ StatusNext
  \/ AppendLine
  \/ AppendPartial
  \/ CompletePartial
  \/ Refresh

SpecAppend == AppendInit /\ [][AppendNext]_vars

\* C27: while the transcript only grows, by whole lines or by a partial last
\* line completed later, the turn count a refresh displays is never below the
\* turn count the refresh before it displayed
C27_TurnCountNeverDecreases ==
  [][(stdout # <<>> /\ stdout' # <<>>) => stdout'[1].msgCount >= stdout[1].msgCount]_vars

\* a later refresh has counted two turns, one of them on a line that was
\* partial before, while the line of the refresh before it shows one
C27_Witness ==
  /\ slPc = "enrich"
  /\ stdout # <<>>
  /\ stdout[1].msgCount = 1
  /\ "count" \in settled
  /\ msgCount = Settled(2)
  /\ Len(fsTranscript.lines) = 3
  /\ fsTranscript.lines[2] = GarbageLine

\* a past content of the transcript: a prefix of its lines, the last of them
\* possibly still partial
PastContents(file) ==
  {[file EXCEPT !.lines = SubSeq(file.lines, 1, n)] : n \in 0..Len(file.lines)}
    \cup {[file EXCEPT !.lines = [k \in 1..n |->
                                    IF k = n THEN PartialLine(file.lines[k].entry)
                                    ELSE file.lines[k]]] :
            n \in {m \in 1..Len(file.lines) : file.lines[m].kind = "object"}}

\* C28: the turn count and the context length of one displayed line were
\* computed from one and the same content of the transcript
C28_OneContent ==
  slPc = "written" =>
    \E content \in PastContents(fsTranscript) :
      /\ stdout[1].msgCount = countUserMessages(transcriptPath, content).value
      /\ stdout[1].contextLength = getTokenMetrics(transcriptPath, content).value


(***************************************************************************)
(* The exit status of the launcher                                         *)
(***************************************************************************)

SyncWarned == \E i \in 1..Len(stderr) : stderr[i] = "File write failed"

\* C30: the instructions target that this launcher's syncInstructions wrote
\* exists as long as this launcher's subprocess runs, whatever other launcher
\* invocations do meanwhile
C30_TargetWhileRunning ==
  (pc = "running" /\ srcExists /\ ~SyncWarned) => targetExists

====
